---- MODULE Spec2Model ----
(***************************************************************************)
(* A model of leader-elect (the bully algorithm over TCP):                 *)
(*   - the message codec of src/message.rs, on strings as sequences of     *)
(*     one-character strings;                                              *)
(*   - one stream carrying frames from a writer to a reader;               *)
(*   - the nodes of src/bully.rs: run(), the listener, the per-connection  *)
(*     handlers and the two timer loops, sharing one RwLock per node.      *)
(***************************************************************************)
EXTENDS Integers, Sequences, FiniteSets, TLC

(***************************************************************************)
(* Results: Rust's Result<T, E> and Option<T>.                             *)
(***************************************************************************)
None == [some |-> FALSE]
Some(v) == [some |-> TRUE, val |-> v]
ErrR(e) == [ok |-> FALSE, err |-> e]
OkR(v) == [ok |-> TRUE, val |-> v]

U8Max == (2 ^ 8) - 1

(***************************************************************************)
(* message.rs: MessageType and its discriminants (`msg.message_type as u8`)*)
(***************************************************************************)
MessageTypes == {"HeartBeat", "Elect", "Alive", "Victory"}

TypeCode(t) ==
    CASE t = "HeartBeat" -> 0
      [] t = "Elect" -> 1
      [] t = "Alive" -> 2
      [] t = "Victory" -> 3

\* Message::new
Message(sender_id, message_type) ==
    [message_type |-> message_type, sender_id |-> sender_id]

(***************************************************************************)
(* Strings are sequences of characters.                                    *)
(***************************************************************************)
Digits == <<"0", "1", "2", "3", "4", "5", "6", "7", "8", "9">>
IsDigit(c) == \E i \in 1..10 : Digits[i] = c
DigitVal(c) == (CHOOSE i \in 1..10 : Digits[i] = c) - 1
IsWhitespace(c) == c \in {" ", "\n", "\t", "\r"}

\* str::trim: leading and trailing whitespace removed
RECURSIVE TrimStart(_)
TrimStart(s) ==
    IF s # <<>> /\ IsWhitespace(Head(s)) THEN TrimStart(Tail(s)) ELSE s

RECURSIVE TrimEnd(_)
TrimEnd(s) ==
    IF s # <<>> /\ IsWhitespace(s[Len(s)])
    THEN TrimEnd(SubSeq(s, 1, Len(s) - 1))
    ELSE s

Trim(s) == TrimEnd(TrimStart(s))

\* str::split(sep): every field between separators, at least one field
RECURSIVE SplitFrom(_, _, _)
SplitFrom(s, sep, cur) ==
    IF s = <<>> THEN <<cur>>
    ELSE IF Head(s) = sep THEN <<cur>> \o SplitFrom(Tail(s), sep, <<>>)
    ELSE SplitFrom(Tail(s), sep, Append(cur, Head(s)))

Split(s, sep) == SplitFrom(s, sep, <<>>)

\* the digit loop of u8::from_str: checked multiply and add
RECURSIVE ParseDigits(_, _)
ParseDigits(s, acc) ==
    IF s = <<>> THEN OkR(acc)
    ELSE IF ~IsDigit(Head(s)) THEN ErrR("InvalidDigit")
    ELSE IF acc * 10 + DigitVal(Head(s)) > U8Max THEN ErrR("PosOverflow")
    ELSE ParseDigits(Tail(s), acc * 10 + DigitVal(Head(s)))

\* str::parse::<u8>: empty is an error, one leading "+" is accepted
ParseU8(s) ==
    IF s = <<>> THEN ErrR("Empty")
    ELSE IF Len(s) = 1 /\ Head(s) \in {"+", "-"} THEN ErrR("InvalidDigit")
    ELSE IF Head(s) = "+" THEN ParseDigits(Tail(s), 0)
    ELSE ParseDigits(s, 0)

\* format!("{}", n) for a u8: the shortest decimal form
RECURSIVE U8ToStr(_)
U8ToStr(n) ==
    IF n < 10 THEN <<Digits[n + 1]>>
    ELSE U8ToStr(n \div 10) \o <<Digits[(n % 10) + 1]>>

\* a plausible slip: "2" and "3" swapped
MessageTypeFromStrSwapped(s) ==
    CASE s = <<"0">> -> OkR("HeartBeat")
      [] s = <<"1">> -> OkR("Elect")
      [] s = <<"2">> -> OkR("Victory")
      [] s = <<"3">> -> OkR("Alive")
      [] OTHER -> ErrR("fail to read message_type")

\* impl FromStr for MessageType
MessageTypeFromStr(s) ==
    CASE s = <<"0">> -> OkR("HeartBeat")
      [] s = <<"1">> -> OkR("Elect")
      [] s = <<"2">> -> OkR("Alive")
      [] s = <<"3">> -> OkR("Victory")
      [] OTHER -> ErrR("fail to read message_type")

\* impl FromStr for Message: the first two fields of s.split(':'); any
\* further field is never looked at
MessageFromStr(s) ==
    LET id_type == Split(s, ":")
        id == ParseU8(id_type[1])
    IN  IF ~id.ok THEN ErrR(id.err)
        ELSE IF Len(id_type) < 2 THEN ErrR("fail to read type")
        ELSE LET ty == MessageTypeFromStr(id_type[2])
             IN  IF ~ty.ok THEN ErrR(ty.err)
                 ELSE OkR(Message(id.val, ty.val))

str_to_message(inp_str) == MessageFromStr(Trim(inp_str))

message_to_str(msg) ==
    U8ToStr(msg.sender_id) \o <<":">> \o U8ToStr(TypeCode(msg.message_type))

(***************************************************************************)
(* message.rs receive_message / BufRead::read_line on a byte stream:       *)
(* a line is everything through the first "\n"; with no "\n" buffered the  *)
(* call blocks until the writer has closed, and then yields what is left   *)
(* (zero bytes when nothing is left).                                      *)
(***************************************************************************)
HasNewline(buf) == \E i \in 1..Len(buf) : buf[i] = "\n"

FirstNewline(buf) == CHOOSE i \in 1..Len(buf) :
    buf[i] = "\n" /\ \A j \in 1..(i - 1) : buf[j] # "\n"

\* read_line can return: a delimiter is buffered, or the stream is at EOF
LineReady(buf, eof) == HasNewline(buf) \/ eof

\* the bytes read_line returns
ReadLine(buf) ==
    IF HasNewline(buf) THEN SubSeq(buf, 1, FirstNewline(buf)) ELSE buf

\* the bytes left in the stream after read_line
AfterLine(buf) ==
    IF HasNewline(buf) THEN SubSeq(buf, FirstNewline(buf) + 1, Len(buf))
    ELSE <<>>

\* receive_message, given the bytes read_line returned
receive_message(line) ==
    IF Len(line) = 0 THEN ErrR("0 bytes read") ELSE str_to_message(line)

(***************************************************************************)
(* bully.rs: constants (seconds) and bounds of the model.                  *)
(***************************************************************************)
RETRY == 10
ALIVE_TIMEOUT == 1
LEADER_CHECK_INTERVAL == 3

\* bytes one stream may hold unread
MaxWire == 6
\* crashes, partitions and listener failures in one execution
MaxFaults == 1
\* length of the strings handed to the decoder
MaxStrLen == 4
\* frames written to the stream of the framing specification
MaxFrames == 3

\* the rosters the nodes are started with
Rosters == {{1, 2}, {1, 2, 3}}
Ids == UNION Rosters
\* the read-timeout error kind of the platform the build runs on
Platforms == {"unix", "windows"}
\* keys of `handlers` in run()
Handlers == {"message handler", "hearbeat handler", "leader_checker handler"}

VARIABLES
    roster,     \* ids of the nodes of the execution (--id / --peers)
    platform,   \* the platform of the build
    faults,     \* environment failures so far
    proc,       \* proc[n]: the process: run, killed, halted, exit0, exit1
    main,       \* main[n]: position of run() and the handlers it has joined
    lock,       \* lock[n]: writer of the node's RwLock: free, main, cl
    lsn,        \* lsn[n]: listen_and_serve thread: init, start, accept, err
    hb,         \* hb[n]: heartbeat thread: init, run, err
    cl,         \* cl[n]: check_leader thread, its position in elect()
    leader,     \* leader[n]: Node.leader
    llh,        \* llh[n]: Node.last_leader_heartbeat, as its age in seconds
    link,       \* link[n][p]: the stream n dialed to p (Peer.conn of n)
    handler,    \* handler[p][n]: handle_message thread of p on that stream
    sent,       \* frames written by the last step
    cpc, cmsg, cstr, cres,              \* the codec under test
    wire, wopen, wsent, wrecv, wreader, \* one stream, writer to reader
    dscript, dres                       \* one dial: the attempts' outcomes

nodeVars == <<roster, platform, faults, proc, main, lock, lsn, hb, cl,
              leader, llh, link, handler, sent>>
codecVars == <<cpc, cmsg, cstr, cres>>
wireVars == <<wire, wopen, wsent, wrecv, wreader>>
dialVars == <<dscript, dres>>
vars == <<nodeVars, codecVars, wireVars, dialVars>>

(***************************************************************************)
(* Node and Peer                                                           *)
(***************************************************************************)
\* Node.peers: the roster without the node itself
Peers(n) == roster \ {n}

Min(S) == CHOOSE x \in S : \A y \in S : x <= y
Max(S) == CHOOSE x \in S : \A y \in S : x >= y

\* iteration of a BTreeMap range: keys in ascending order
RECURSIVE Ascending(_)
Ascending(S) ==
    IF S = {} THEN <<>> ELSE <<Min(S)>> \o Ascending(S \ {Min(S)})

\* a plausible slip: the whole peer map instead of the range below node.id
LowerPeersWholeMap(n) == Peers(n)

\* node.peers.range_mut(..node.id)
LowerPeers(n) == {p \in Peers(n) : p < n}

\* node.id + 1 in u8: past 255 the sum panics in a build with overflow
\* checks (the debug profile) and wraps to 0 in one without (release)
IdPlusOne(n) == IF n + 1 > U8Max THEN {"panic", "wrap"} ELSE {"value"}

\* node.peers.range_mut(node.id + 1..), the sum taken in 8 bits
HigherPeers(n) == {p \in Peers(n) : p >= (n + 1) % (2 ^ 8)}

\* the key after p in an ascending walk of S, 0 at the end
NextIn(S, p) == IF {q \in S : q > p} = {} THEN 0 ELSE Min({q \in S : q > p})
FirstIn(S) == IF S = {} THEN 0 ELSE Min(S)

Running(n) == n \in roster /\ proc[n] = "run"
\* a slip: the node is handed to the thread without the lock
WriteLockFreeAlways(n) == TRUE

\* RwLock::write() returns: no other thread holds a guard of the node
WriteLockFree(n) == lock[n] = "free"
\* the process is gone and the kernel has closed its sockets
Dead(n) == proc[n] \in {"killed", "exit0", "exit1"}
\* the far end of the stream n dialed to p is closed
PeerEndClosed(n, p) == link[n][p].srv = "closed" \/ Dead(p)

\* Peer.conn of n for p: the two ends, the bytes under way to p (buf) and
\* back to n (back), and whether a read deadline is set on n's end
NoLink == [cli |-> "none", srv |-> "none", buf |-> <<>>, back |-> <<>>,
           rdTimeout |-> FALSE]
NoHandler == [pc |-> "none", msg |-> None]
\* check_leader between elections; `asked` lists the exchanges of the
\* election under way or last run, each with what its read returned
ClIdle(pc) ==
    [pc |-> pc, peer |-> 0, deadline |-> 0, result |-> "none", asked |-> <<>>]
\* the election has ended with result r: the guard is dropped
ClEnded(n, pc, r) ==
    [ClIdle(pc) EXCEPT !.result = r, !.asked = cl[n].asked]

\* Node::new for every node of the roster, nothing started yet
InitNodes(r) ==
    /\ roster = r
    /\ faults = 0
    /\ proc = [n \in r |-> "run"]
    /\ main = [n \in r |-> [pc |-> "start", peer |-> 0, joined |-> {}]]
    /\ lock = [n \in r |-> "free"]
    /\ lsn = [n \in r |-> "init"]
    /\ hb = [n \in r |-> "init"]
    /\ cl = [n \in r |-> ClIdle("init")]
    /\ leader = [n \in r |-> None]
    /\ llh = [n \in r |-> None]
    /\ link = [n \in r |-> [p \in r \ {n} |-> NoLink]]
    /\ handler = [p \in r |-> [n \in r \ {p} |-> NoHandler]]
    /\ sent = <<>>

CodecIdle ==
    /\ cpc = "idle" /\ cmsg = None /\ cstr = <<>> /\ cres = None

WireIdle ==
    /\ wire = <<>> /\ wopen = FALSE /\ wsent = <<>> /\ wrecv = <<>>
    /\ wreader = "idle"

DialIdle ==
    /\ dscript = <<>> /\ dres = None

Init ==
    /\ \E r \in Rosters : InitNodes(r)
    /\ platform \in Platforms
    /\ CodecIdle
    /\ WireIdle
    /\ DialIdle

(***************************************************************************)
(* bully.rs connect: the retry loop, over the outcomes of its attempts     *)
(***************************************************************************)
RECURSIVE connect_loop(_, _, _)
connect_loop(outcomes, count, attempts) ==
    LET o == Head(outcomes)
    IN  IF o = "TimedOut" /\ count > 0
        THEN connect_loop(Tail(outcomes), count - 1, attempts + 1)
        ELSE IF o = "Connected"
        THEN [ok |-> TRUE, attempts |-> attempts + 1]
        ELSE [ok |-> FALSE, err |-> o, attempts |-> attempts + 1]

\* a slip: one attempt fewer
connectOneLess(outcomes) == connect_loop(outcomes, RETRY - 1, 0)

connect(outcomes) == connect_loop(outcomes, RETRY, 0)

\* what the attempts of one dial can meet: timeouts, then the peer's answer
AttemptSeqs(final) ==
    IF final = "TimedOut"
    THEN {[i \in 1..(RETRY + 1) |-> "TimedOut"]}
    ELSE {[i \in 1..(k + 1) |-> IF i <= k THEN "TimedOut" ELSE final] :
            k \in 0..(RETRY + 1)}

\* the answer of p's host to a connection attempt
DialAnswer(p) ==
    IF proc[p] = "halted" THEN "TimedOut"
    ELSE IF Running(p) /\ lsn[p] = "accept" THEN "Connected"
    ELSE "ConnectionRefused"

(***************************************************************************)
(* bully.rs run(): steps 2 to 6                                            *)
(***************************************************************************)
\* step 2: the listener thread is spawned
run_spawn_listener(n) ==
    /\ Running(n) /\ main[n].pc = "start"
    /\ lsn' = [lsn EXCEPT ![n] = "start"]
    /\ main' = [main EXCEPT ![n].pc = "lock"]
    /\ sent' = <<>>
    /\ UNCHANGED <<codecVars, wireVars, dialVars, roster, platform, faults, proc, lock, hb, cl, leader, llh,
                   link, handler>>

\* step 3: arc_rw_node.write()
run_lock(n) ==
    /\ Running(n) /\ main[n].pc = "lock"
    /\ WriteLockFree(n)
    /\ lock' = [lock EXCEPT ![n] = "main"]
    /\ main' = [main EXCEPT ![n].pc = IF Peers(n) = {} THEN "spawn" ELSE "dial",
                            ![n].peer = FirstIn(Peers(n))]
    /\ sent' = <<>>
    /\ UNCHANGED <<codecVars, wireVars, dialVars, roster, platform, faults, proc, lsn, hb, cl, leader, llh,
                   link, handler>>

\* step 3: peer.conn = Some(connect(peer.address)?), peers in id order
run_dial(n) ==
    /\ Running(n) /\ main[n].pc = "dial"
    /\ LET p == main[n].peer
       IN  \E outcomes \in AttemptSeqs(DialAnswer(p)) :
             IF connect(outcomes).ok
             THEN /\ link' = [link EXCEPT ![n][p].cli = "open",
                                          ![n][p].srv = "pending"]
                  /\ main' = [main EXCEPT
                        ![n].pc = IF NextIn(Peers(n), p) = 0
                                  THEN "spawn" ELSE "dial",
                        ![n].peer = NextIn(Peers(n), p)]
                  /\ UNCHANGED proc
             ELSE \* run() returns the error and main() ends the process
                  /\ proc' = [proc EXCEPT ![n] = "exit1"]
                  /\ UNCHANGED <<link, main>>
    /\ sent' = <<>>
    /\ UNCHANGED <<codecVars, wireVars, dialVars, roster, platform, faults, lock, lsn, hb, cl, leader, llh,
                   handler>>

\* steps 4 and 5: the write guard is dropped, the timer threads are spawned
run_spawn_timers(n) ==
    /\ Running(n) /\ main[n].pc = "spawn"
    /\ lock' = [lock EXCEPT ![n] = "free"]
    /\ hb' = [hb EXCEPT ![n] = "run"]
    /\ cl' = [cl EXCEPT ![n] = ClIdle("sleep")]
    /\ main' = [main EXCEPT ![n].pc = "join"]
    /\ sent' = <<>>
    /\ UNCHANGED <<codecVars, wireVars, dialVars, roster, platform, faults, proc, lsn, leader, llh, link,
                   handler>>

\* how the thread behind a handle has ended: "" while it runs
ThreadEnd(n, h) ==
    LET st == CASE h = "message handler" -> lsn[n]
                [] h = "hearbeat handler" -> hb[n]
                [] h = "leader_checker handler" -> cl[n].pc
    IN  IF st \in {"err", "panic"} THEN st ELSE ""

\* step 6: hdl.join() returns Err only for a thread that panicked; the
\* handles are joined in the HashMap's order, which is any order
run_join(n, h) ==
    /\ Running(n) /\ main[n].pc = "join"
    /\ h \notin main[n].joined
    /\ ThreadEnd(n, h) # ""
    /\ IF ThreadEnd(n, h) = "panic"
       THEN /\ proc' = [proc EXCEPT ![n] = "exit1"]
            /\ UNCHANGED main
       ELSE /\ main' = [main EXCEPT ![n].joined = @ \cup {h}]
            /\ proc' = [proc EXCEPT ![n] =
                  IF main[n].joined \cup {h} = Handlers THEN "exit0" ELSE @]
    /\ sent' = <<>>
    /\ UNCHANGED <<codecVars, wireVars, dialVars, roster, platform, faults, lock, lsn, hb, cl, leader, llh,
                   link, handler>>

(***************************************************************************)
(* bully.rs listen_and_serve                                               *)
(***************************************************************************)
\* TcpListener::bind under the read lock
listen_bind(n) ==
    /\ Running(n) /\ lsn[n] = "start"
    /\ lock[n] = "free"
    /\ \E ok \in BOOLEAN :
         /\ ~ok => faults < MaxFaults
         /\ lsn' = [lsn EXCEPT ![n] = IF ok THEN "accept" ELSE "err"]
         /\ faults' = IF ok THEN faults ELSE faults + 1
    /\ sent' = <<>>
    /\ UNCHANGED <<codecVars, wireVars, dialVars, roster, platform, proc, main, lock, hb, cl, leader, llh,
                   link, handler>>

\* listener.accept()?: a connection and its handle_message thread, or the
\* error that ends the loop and drops the listener
listen_accept(n) ==
    /\ Running(n) /\ lsn[n] = "accept"
    /\ \E from \in Peers(n) \cup {0} :
         IF from = 0
         THEN /\ faults < MaxFaults
              /\ faults' = faults + 1
              /\ lsn' = [lsn EXCEPT ![n] = "err"]
              /\ link' = [a \in roster |-> [b \in Peers(a) |->
                    IF b = n /\ link[a][b].srv = "pending"
                    THEN [link[a][b] EXCEPT !.srv = "closed"]
                    ELSE link[a][b]]]
              /\ UNCHANGED handler
         ELSE /\ link[from][n].srv = "pending"
              /\ link' = [link EXCEPT ![from][n].srv = "open"]
              /\ handler' = [handler EXCEPT ![n][from].pc = "read"]
              /\ UNCHANGED <<faults, lsn>>
    /\ sent' = <<>>
    /\ UNCHANGED <<codecVars, wireVars, dialVars, roster, platform, proc, main, lock, hb, cl, leader, llh>>

(***************************************************************************)
(* bully.rs send_message on the stream n dialed to p                       *)
(***************************************************************************)
\* the bytes send_message writes: message_to_str(msg), nothing after it
Frame(sender_id, message_type) ==
    message_to_str(Message(sender_id, message_type))

\* the write is an error: no connection stored for the peer
MustFail(n, p) == link[n][p].cli = "none"
\* the write can be an error: the far end is closed
MayFail(n, p) == MustFail(n, p) \/ PeerEndClosed(n, p)
\* the bytes of a write that succeeded reach p's handler
Delivered(n, p) == ~PeerEndClosed(n, p) /\ Running(p)

\* the first peer of `targets` whose send fails, 0 when none does
FailChoices(n, targets) ==
    {f \in targets \cup {0} :
        /\ f # 0 => MayFail(n, f)
        /\ \A q \in targets : MustFail(n, q) => (f # 0 /\ f <= q)}

\* a slip: the loop goes on after a send that failed
RecipientsAfterFailure(targets, failAt) == targets

\* a loop of send_message(..)? over `targets` in ascending order stops at
\* the first send that fails
Recipients(targets, failAt) ==
    {p \in targets : failAt = 0 \/ p < failAt}

HasRoom(n, to, t) ==
    \A p \in to : Delivered(n, p) =>
        Len(link[n][p].buf) + Len(Frame(n, t)) <= MaxWire

Written(n, to, t) ==
    [link EXCEPT ![n] = [p \in Peers(n) |->
        IF p \in to /\ Delivered(n, p)
        THEN [link[n][p] EXCEPT !.buf = @ \o Frame(n, t)]
        ELSE link[n][p]]]

SentLog(n, to, t) ==
    [i \in 1..Cardinality(to) |->
        [from |-> n, to |-> Ascending(to)[i], type |-> t]]

(***************************************************************************)
(* bully.rs handle_message: the thread of p on the stream n dialed to p    *)
(***************************************************************************)
handle_message(p, n) ==
    /\ Running(p) /\ n \in Peers(p)
    /\ CASE handler[p][n].pc = "read" ->
              \* message::receive_message(&mut buf_rd)?
              /\ LineReady(link[n][p].buf, Dead(n))
              /\ \E reset \in (IF proc[n] = "killed" THEN BOOLEAN ELSE {FALSE}) :
                   LET r == IF reset THEN ErrR("ConnectionReset")
                            ELSE receive_message(ReadLine(link[n][p].buf))
                   IN  IF r.ok
                       THEN /\ handler' = [handler EXCEPT ![p][n] =
                                  [pc |-> "handle", msg |-> Some(r.val)]]
                            /\ link' = [link EXCEPT ![n][p].buf = AfterLine(@)]
                       ELSE \* the error ends the thread and drops the stream
                            /\ handler' = [handler EXCEPT ![p][n] =
                                  [pc |-> "exited", msg |-> None]]
                            /\ link' = [link EXCEPT ![n][p].srv = "closed",
                                                    ![n][p].buf = <<>>]
         [] handler[p][n].pc = "handle" ->
              \* `// TODO handle message`: _msg is dropped, nothing else
              /\ handler' = [handler EXCEPT ![p][n] =
                    [pc |-> "read", msg |-> None]]
              /\ UNCHANGED link
         [] OTHER -> FALSE
    /\ sent' = <<>>
    /\ UNCHANGED <<codecVars, wireVars, dialVars, roster, platform, faults, proc, main, lock, lsn, hb, cl,
                   leader, llh>>

(***************************************************************************)
(* bully.rs heartbeat: one round of the loop, under the write lock         *)
(***************************************************************************)
heartbeat(n) ==
    /\ Running(n) /\ hb[n] = "run"
    /\ lock[n] = "poisoned" \/ WriteLockFree(n)
    /\ IF lock[n] = "poisoned"
       THEN \* locked_node.write().unwrap() on a poisoned lock panics
            /\ hb' = [hb EXCEPT ![n] = "panic"]
            /\ sent' = <<>>
            /\ UNCHANGED link
       ELSE IF leader[n].some /\ leader[n].val = n
       THEN \E failAt \in FailChoices(n, LowerPeers(n)) :
              LET to == Recipients(LowerPeers(n), failAt)
              IN  /\ HasRoom(n, to, "HeartBeat")
                  /\ link' = Written(n, to, "HeartBeat")
                  /\ sent' = SentLog(n, to, "HeartBeat")
                  /\ hb' = [hb EXCEPT ![n] = IF failAt = 0 THEN "run" ELSE "err"]
       ELSE /\ sent' = <<>>
            /\ UNCHANGED <<link, hb>>
    /\ UNCHANGED <<codecVars, wireVars, dialVars, roster, platform, faults, proc, main, lock, lsn, cl,
                   leader, llh, handler>>

(***************************************************************************)
(* bully.rs send_elect_message: what the read of the reply returns         *)
(***************************************************************************)
\* the io::ErrorKind of a read that hit its deadline
TimeoutKind == IF platform = "unix" THEN "WouldBlock" ELSE "TimedOut"

ReadErr(e) == [kind |-> "Err", err |-> e, line |-> <<>>]
ReadOk(line) == [kind |-> "Ok", err |-> "", line |-> line]

\* the match on buf_rd.read_line(&mut response): the response, and whether
\* set_read_timeout(None) was called on the way out
send_elect_reply(read) ==
    IF read.kind = "Err" /\ read.err = "TimedOut"
    THEN [resp |-> OkR("ResponseTimeOut"), cleared |-> TRUE]
    ELSE IF read.kind = "Err"
    THEN [resp |-> ErrR(read.err), cleared |-> TRUE]
    ELSE IF Len(read.line) = 0
    THEN [resp |-> ErrR("read zero bytes from the connection"),
          cleared |-> FALSE]
    ELSE LET rep_msg == str_to_message(read.line)
         IN  IF ~rep_msg.ok
             THEN [resp |-> ErrR(rep_msg.err), cleared |-> FALSE]
             ELSE IF rep_msg.val.message_type = "Alive"
             THEN [resp |-> OkR("BuillerAlive"), cleared |-> FALSE]
             ELSE [resp |-> ErrR("incorrect message type"),
                   cleared |-> FALSE]

\* what the read on the stream n dialed to p can return: a line that has
\* come back on it, else the far end's close, else the deadline.  The
\* handle_message of this program writes nothing back; bytes come back
\* only from a process of another make at the peer's address.
ReadOutcomes(n, p) ==
    IF link[n][p].back # <<>>
    THEN {ReadOk(ReadLine(link[n][p].back))}
    ELSE IF PeerEndClosed(n, p)
    THEN {ReadOk(<<>>), ReadErr("ConnectionReset")}
    ELSE IF cl[n].deadline = 0 THEN {ReadErr(TimeoutKind)} ELSE {}

\* how an exchange went, for the record in cl[n].asked
Got(read) ==
    IF read.kind = "Err"
    THEN IF read.err = TimeoutKind THEN "timeout" ELSE "error"
    ELSE IF read.line = <<>> THEN "eof" ELSE "line"

Exchange(p, got, line) == [peer |-> p, got |-> got, line |-> line]

SetLast(seq, e) == [seq EXCEPT ![Len(seq)] = e]

(***************************************************************************)
(* bully.rs check_leader, elect and announce_victory                       *)
(***************************************************************************)
\* a slip: the field is left as it was
ClearedNot(field, n) == field

\* node.leader = None; node.last_leader_heartbeat = None
Cleared(field, n) == [field EXCEPT ![n] = None]

\* a slip: >= for >
StaleAtInterval(age) == age >= LEADER_CHECK_INTERVAL

\* current_time.duration_since(last_heartbeat)? > LEADER_CHECK_INTERVAL
Stale(age) == age > LEADER_CHECK_INTERVAL

\* the error leaves the loop: the write guard is dropped, the thread ends
ClFailed(n, asked) ==
    /\ cl' = [cl EXCEPT ![n] = [ClEnded(n, "err", "Err") EXCEPT
                                   !.asked = asked]]
    /\ lock' = [lock EXCEPT ![n] = "free"]

\* one round of the loop up to the call of elect()
check_tick(n) ==
    /\ WriteLockFree(n)
    /\ sent' = <<>>
    /\ IF ~llh[n].some
       THEN \* None => continue
            UNCHANGED <<cl, lock, leader, llh, link>>
       ELSE \E clockOk \in BOOLEAN :
              IF ~clockOk
              THEN \* current_time.duration_since(last_heartbeat)? fails
                   \* when the system clock was set back
                   ClFailed(n, <<>>) /\ UNCHANGED <<leader, llh, link>>
              ELSE IF Stale(llh[n].val)
              THEN /\ leader' = Cleared(leader, n)
                   /\ llh' = Cleared(llh, n)
                   /\ UNCHANGED link
                   /\ \E sum \in IdPlusOne(n) :
                        IF sum = "panic"
                        THEN \* elect() panics under the write guard: the
                             \* thread ends and the lock is poisoned
                             /\ lock' = [lock EXCEPT ![n] = "poisoned"]
                             /\ cl' = [cl EXCEPT ![n] =
                                   [ClIdle("panic") EXCEPT !.result = "Panic"]]
                        ELSE /\ lock' = [lock EXCEPT ![n] = "cl"]
                             /\ cl' = [cl EXCEPT ![n] =
                                   [ClIdle("elect") EXCEPT
                                      !.peer = FirstIn(HigherPeers(n))]]
              ELSE UNCHANGED <<cl, lock, leader, llh, link>>

\* elect(): the next send_elect_message; after the last one Win, then
\* node.leader = Some(node.id) and announce_victory
elect_step(n) ==
    LET p == cl[n].peer
    IN  IF p = 0
        THEN \E failAt \in FailChoices(n, LowerPeers(n)) :
               LET to == Recipients(LowerPeers(n), failAt)
               IN  /\ HasRoom(n, to, "Victory")
                   /\ leader' = [leader EXCEPT ![n] = Some(n)]
                   /\ link' = Written(n, to, "Victory")
                   /\ sent' = SentLog(n, to, "Victory")
                   /\ cl' = [cl EXCEPT ![n] =
                         ClEnded(n, IF failAt = 0 THEN "sleep" ELSE "err",
                                 "Win")]
                   /\ lock' = [lock EXCEPT ![n] = "free"]
                   /\ UNCHANGED llh
        ELSE \E failAt \in FailChoices(n, {p}) :
               IF failAt = 0
               THEN \* Elect is written, conn.set_read_timeout(Some(..))
                    /\ HasRoom(n, {p}, "Elect")
                    /\ link' = [Written(n, {p}, "Elect") EXCEPT
                                   ![n][p].rdTimeout = TRUE]
                    /\ sent' = SentLog(n, {p}, "Elect")
                    /\ cl' = [cl EXCEPT
                          ![n].pc = "wait",
                          ![n].deadline = ALIVE_TIMEOUT,
                          ![n].asked = Append(@, Exchange(p, "pending", <<>>))]
                    /\ UNCHANGED <<lock, leader, llh>>
               ELSE /\ ClFailed(n, Append(cl[n].asked,
                                          Exchange(p, "write error", <<>>)))
                    /\ sent' = <<>>
                    /\ UNCHANGED <<leader, llh, link>>

\* send_elect_message: the read returns
elect_read(n) ==
    LET p == cl[n].peer
    IN  \E read \in ReadOutcomes(n, p) :
          LET r == send_elect_reply(read)
              asked == SetLast(cl[n].asked, Exchange(p, Got(read), read.line))
          IN  /\ link' = [link EXCEPT ![n][p].rdTimeout = ~r.cleared,
                                      ![n][p].back = AfterLine(@)]
              /\ sent' = <<>>
              /\ UNCHANGED <<leader, llh>>
              /\ IF r.resp = OkR("BuillerAlive")
                 THEN /\ cl' = [cl EXCEPT ![n] =
                            [ClEnded(n, "sleep", "Fail") EXCEPT
                                !.asked = asked]]
                      /\ lock' = [lock EXCEPT ![n] = "free"]
                 ELSE IF r.resp = OkR("ResponseTimeOut")
                 THEN /\ cl' = [cl EXCEPT ![n].pc = "elect",
                                  ![n].deadline = 0,
                                  ![n].peer = NextIn(HigherPeers(n), p),
                                  ![n].asked = asked]
                      /\ UNCHANGED lock
                 ELSE ClFailed(n, asked)

check_leader(n) ==
    /\ Running(n)
    /\ CASE cl[n].pc = "sleep" -> check_tick(n)
         [] cl[n].pc = "elect" -> elect_step(n)
         [] cl[n].pc = "wait" -> elect_read(n)
         [] OTHER -> FALSE
    /\ UNCHANGED <<codecVars, wireVars, dialVars, roster, platform, faults, proc, main, lsn, hb, handler>>

(***************************************************************************)
(* The environment: time and failures                                      *)
(***************************************************************************)
\* one second passes
Tick ==
    /\ llh' = [n \in roster |->
          IF llh[n].some /\ llh[n].val <= LEADER_CHECK_INTERVAL
          THEN Some(llh[n].val + 1) ELSE llh[n]]
    /\ cl' = [n \in roster |->
          IF cl[n].deadline > 0
          THEN [cl[n] EXCEPT !.deadline = @ - 1] ELSE cl[n]]
    /\ sent' = <<>>
    /\ UNCHANGED <<codecVars, wireVars, dialVars, roster, platform, faults, proc, main, lock, lsn, hb,
                   leader, link, handler>>

\* fail-stop: the process is killed (its sockets are closed) or its host
\* is cut off (nothing more is heard of it)
crash(n) ==
    /\ Running(n)
    /\ faults < MaxFaults
    /\ faults' = faults + 1
    /\ \E how \in {"killed", "halted"} : proc' = [proc EXCEPT ![n] = how]
    /\ sent' = <<>>
    /\ UNCHANGED <<codecVars, wireVars, dialVars, roster, platform, main, lock, lsn, hb, cl, leader, llh,
                   link, handler>>

(***************************************************************************)
(* The program from its start                                              *)
(***************************************************************************)
Next ==
    \/ \E n \in Ids :
        \/ run_spawn_listener(n)
        \/ run_lock(n)
        \/ run_dial(n)
        \/ run_spawn_timers(n)
        \/ listen_bind(n)
        \/ listen_accept(n)
        \/ heartbeat(n)
        \/ check_leader(n)
        \/ crash(n)
        \/ \E h \in Handlers : run_join(n, h)
        \/ \E p \in Ids : handle_message(n, p)
    \/ Tick

Spec == Init /\ [][Next]_vars

(***************************************************************************)
(* The nodes after a start without failures: every peer dialed and         *)
(* accepted, the three threads of every node running.  One node holds any  *)
(* Node value (any leader, a heartbeat time that is fresh, stale or unset);*)
(* the others hold the value Node::new gave them.                          *)
(***************************************************************************)
UnitRoster == {1, 2, 3}

InitStarted(r) ==
    /\ roster = r
    /\ platform \in Platforms
    /\ faults = 0
    /\ proc = [n \in r |-> "run"]
    /\ main = [n \in r |-> [pc |-> "join", peer |-> 0, joined |-> {}]]
    /\ lock = [n \in r |-> "free"]
    /\ lsn = [n \in r |-> "accept"]
    /\ hb = [n \in r |-> "run"]
    /\ cl = [n \in r |-> ClIdle("sleep")]
    /\ \E u \in r :
         /\ \E l \in {None} \cup {Some(i) : i \in r} :
              leader = [n \in r |-> IF n = u THEN l ELSE None]
         /\ \E t \in {None, Some(LEADER_CHECK_INTERVAL),
                      Some(LEADER_CHECK_INTERVAL + 1)} :
              llh = [n \in r |-> IF n = u THEN t ELSE None]
    /\ link = [n \in r |-> [p \in r \ {n} |->
          [cli |-> "open", srv |-> "open", buf |-> <<>>, back |-> <<>>,
           rdTimeout |-> FALSE]]]
    /\ handler = [p \in r |-> [n \in r \ {p} |->
          [pc |-> "read", msg |-> None]]]
    /\ sent = <<>>
    /\ CodecIdle
    /\ WireIdle
    /\ DialIdle

InitUnit == InitStarted(UnitRoster)

NextUnit ==
    \/ \E n \in Ids :
        \/ listen_accept(n)
        \/ heartbeat(n)
        \/ check_leader(n)
        \/ crash(n)
        \/ \E h \in Handlers : run_join(n, h)
        \/ \E p \in Ids : handle_message(n, p)
    \/ Tick

SpecUnit == InitUnit /\ [][NextUnit]_vars

(***************************************************************************)
(* The same nodes with peers that answer.  send_elect_message reads        *)
(* whatever comes back on the stream it wrote Elect to (bully.rs 197); a   *)
(* line comes back when the process at the peer's address is one that      *)
(* answers: an Alive, a frame of another type, or bytes that are no frame. *)
(***************************************************************************)
Replies(p) ==
    {Frame(p, "Alive") \o <<"\n">>,
     Frame(p, "Victory") \o <<"\n">>,
     <<"a", "\n">>}

\* a line arrives on the stream n dialed to p while n waits for the reply
reply(n, p) ==
    /\ Running(n) /\ p \in Peers(n)
    /\ cl[n].pc = "wait" /\ cl[n].peer = p
    /\ link[n][p].back = <<>>
    /\ ~PeerEndClosed(n, p)
    /\ \E line \in Replies(p) : link' = [link EXCEPT ![n][p].back = line]
    /\ sent' = <<>>
    /\ UNCHANGED <<codecVars, wireVars, dialVars, roster, platform, faults, proc,
                   main, lock, lsn, hb, cl, leader, llh, handler>>

NextElect ==
    \/ \E n \in Ids :
        \/ listen_accept(n)
        \/ heartbeat(n)
        \/ check_leader(n)
        \/ crash(n)
        \/ \E h \in Handlers : run_join(n, h)
        \/ \E p \in Ids : handle_message(n, p)
        \/ \E p \in Ids : reply(n, p)
    \/ Tick

SpecElect == InitUnit /\ [][NextElect]_vars

(***************************************************************************)
(* The same start for a roster at the top of u8: node 255 has no higher    *)
(* peer, and its `node.id + 1` does not fit.                               *)
(***************************************************************************)
EdgeRoster == {254, 255}

InitEdge == InitStarted(EdgeRoster)

NextEdge ==
    \/ \E n \in EdgeRoster :
        \/ listen_accept(n)
        \/ heartbeat(n)
        \/ check_leader(n)
        \/ crash(n)
        \/ \E h \in Handlers : run_join(n, h)
        \/ \E p \in EdgeRoster : handle_message(n, p)
    \/ Tick

SpecEdge == InitEdge /\ [][NextEdge]_vars

(***************************************************************************)
(* The codec alone: message_to_str on every message, str_to_message on its *)
(* output and on strings of its own.                                       *)
(***************************************************************************)
Messages == {Message(id, t) : id \in 0..U8Max, t \in MessageTypes}

Alphabet == {"0", "1", "2", "9", ":", " ", "+", "a", "\n"}
Strings == UNION {[1..m -> Alphabet] : m \in 0..MaxStrLen}
\* longer inputs: ids at and past the end of u8, a third field, a frame
\* with its newline, and a word
Seeds == {<<"2", "5", "5", ":", "3">>,
          <<"2", "5", "6", ":", "3">>,
          <<"1", ":", "2", ":", "3">>,
          <<"1", "2", ":", "0", "\n">>,
          <<" ", "7", ":", "1", "\r", "\n">>,
          <<"3", ":", "2", ":">>,
          <<"-", "1", ":", "2">>,
          <<"f", "o", "o">>}

NodesIdle == InitNodes({}) /\ platform = "unix"

InitCodec ==
    /\ NodesIdle
    /\ WireIdle
    /\ DialIdle
    /\ cres = None
    /\ \/ cpc = "msg" /\ cmsg \in {Some(m) : m \in Messages} /\ cstr = <<>>
       \/ cpc = "str" /\ cmsg = None /\ cstr \in Strings \cup Seeds

encode ==
    /\ cpc = "msg"
    /\ cstr' = message_to_str(cmsg.val)
    /\ cpc' = "str"
    /\ UNCHANGED <<cmsg, cres, nodeVars, wireVars, dialVars>>

decode ==
    /\ cpc = "str"
    /\ cres' = Some(str_to_message(cstr))
    /\ cpc' = "done"
    /\ UNCHANGED <<cmsg, cstr, nodeVars, wireVars, dialVars>>

NextCodec == encode \/ decode

SpecCodec == InitCodec /\ [][NextCodec]_vars

(***************************************************************************)
(* One stream: bully.rs send_message writes, the loop of handle_message    *)
(* calls receive_message.                                                  *)
(***************************************************************************)
WireMessages == {Message(id, t) : id \in {2, 13}, t \in MessageTypes}

InitWire ==
    /\ NodesIdle
    /\ CodecIdle
    /\ DialIdle
    /\ wire = <<>> /\ wopen = TRUE /\ wsent = <<>> /\ wrecv = <<>>
    /\ wreader = "run"

\* conn.write_all(message::message_to_str(msg).as_bytes())
wire_send(m) ==
    /\ wopen
    /\ Len(wsent) < MaxFrames
    /\ wire' = wire \o Frame(m.sender_id, m.message_type)
    /\ wsent' = Append(wsent, m)
    /\ UNCHANGED <<wopen, wrecv, wreader, nodeVars, codecVars, dialVars>>

\* the writer's end is closed
wire_close ==
    /\ wopen
    /\ wopen' = FALSE
    /\ UNCHANGED <<wire, wsent, wrecv, wreader, nodeVars, codecVars, dialVars>>

\* let _msg = message::receive_message(&mut buf_rd)?
wire_receive ==
    /\ wreader = "run"
    /\ LineReady(wire, ~wopen)
    /\ LET r == receive_message(ReadLine(wire))
       IN  /\ wrecv' = Append(wrecv, r)
           /\ wreader' = IF r.ok THEN "run" ELSE "exited"
    /\ wire' = AfterLine(wire)
    /\ UNCHANGED <<wopen, wsent, nodeVars, codecVars, dialVars>>

NextWire == (\E m \in WireMessages : wire_send(m)) \/ wire_close \/ wire_receive

SpecWire == InitWire /\ [][NextWire]_vars

(***************************************************************************)
(* connect alone: one dial, against every run of timeouts followed by an   *)
(* answer (and what later attempts would have met).                        *)
(***************************************************************************)
\* timeouts an address can answer with in a row
MaxTimeouts == 12

Outcomes == {"Connected", "TimedOut", "ConnectionRefused"}

Timeouts(k) == [i \in 1..k |-> "TimedOut"]

ConnScripts ==
    {Timeouts(k) \o <<final, later>> :
        k \in 0..MaxTimeouts,
        final \in Outcomes \ {"TimedOut"},
        later \in Outcomes}

InitConnect ==
    /\ NodesIdle
    /\ CodecIdle
    /\ WireIdle
    /\ dscript \in ConnScripts
    /\ dres = None

\* connect(peer.address)
dial ==
    /\ dres = None
    /\ dres' = Some(connect(dscript))
    /\ UNCHANGED <<dscript, nodeVars, codecVars, wireVars>>

NextConnect == dial

SpecConnect == InitConnect /\ [][NextConnect]_vars

(***************************************************************************)
(* The scheduler runs every thread that can take a step, and time passes;  *)
(* failures (a crash, a bind or accept error) are not owed.                *)
(***************************************************************************)
Fairness ==
    /\ WF_vars(Tick)
    /\ \A n \in Ids :
        /\ WF_vars(run_spawn_listener(n))
        /\ WF_vars(run_lock(n))
        /\ WF_vars(run_dial(n))
        /\ WF_vars(run_spawn_timers(n))
        /\ WF_vars(listen_bind(n) /\ faults' = faults)
        /\ WF_vars(listen_accept(n) /\ faults' = faults)
        /\ WF_vars(heartbeat(n))
        /\ WF_vars(check_leader(n))
        /\ WF_vars(\E h \in Handlers : run_join(n, h))
        /\ WF_vars(\E p \in Ids : handle_message(n, p))

FairSpec == Init /\ [][Next]_vars /\ Fairness

(***************************************************************************)
(* Properties                                                              *)
(***************************************************************************)
Live == {n \in roster : proc[n] = "run"}

\* every live node has finished run()'s start and its streams to the live
\* peers are open at both ends
Connected ==
    \A n \in Live :
        /\ main[n].pc = "join"
        /\ lsn[n] = "accept"
        /\ \A p \in Live \ {n} :
              link[n][p].cli = "open" /\ link[n][p].srv = "open"

Agreement == \A n \in Live : leader[n] = Some(Max(Live))

\* C1: once the set of live nodes has stopped changing and the live nodes
\* are connected, eventually every live node has the maximum live id as
\* its leader, for good.
C1_EventualAgreement == <>[](Connected => Agreement)

\* C5: with roster {1, 2}, once both nodes run and are connected, node 2
\* has elected itself on its leader-check and announced it: from some
\* point on leader = 2 on both nodes.
C5_TwoNodeBootstrap ==
    (roster = {1, 2}) =>
        <>[]((Live = {1, 2} /\ Connected) =>
                (leader[1] = Some(2) /\ leader[2] = Some(2)))

\* C9: a process that has found one of its threads ended by an error has
\* exited with a non-zero code; it has not gone on, and it never ends
\* with code 0 after such an error.
C9_FatalErrorsTerminate ==
    \A n \in roster :
        /\ \A h \in main[n].joined :
              ThreadEnd(n, h) = "err" => proc[n] = "exit1"
        /\ proc[n] = "exit0" => \A h \in Handlers : ThreadEnd(n, h) # "err"

\* C6: for every sender id in 0..=255 and every message type, decoding
\* what message_to_str produced succeeds and returns the same message.
C6_RoundTrip ==
    (cpc = "done" /\ cmsg.some) => cres = Some(OkR(cmsg.val))

C6_Witness ==
    /\ cpc = "done"
    /\ cmsg = Some(Message(255, "Victory"))
    /\ cstr = <<"2", "5", "5", ":", "3">>
    /\ cres = Some(OkR(Message(255, "Victory")))

\* the wire form: the shortest decimal of a u8, ":", one digit 0..3
IsWireForm(s) ==
    \E id \in 0..U8Max, code \in 0..3 :
        s = U8ToStr(id) \o <<":">> \o <<Digits[code + 1]>>

\* C7: decoding is an error for every input that, trimmed, is not exactly
\* <sender_id>:<type_code>.
C7_Rejection ==
    (cpc = "done" /\ ~cmsg.some /\ ~IsWireForm(Trim(cstr))) => ~cres.val.ok

OkAll(msgs) == [i \in 1..Len(msgs) |-> OkR(msgs[i])]

\* C8: every frame written is a line ended by "\n", and the reader gets
\* the messages written, in order, each once it is written: when the
\* reader has read all it can without the stream being closed, it has
\* received every message written.
C8_Framing ==
    /\ (wire # <<>> => wire[Len(wire)] = "\n")
    /\ Len(wrecv) <= Len(wsent)
    /\ wrecv = SubSeq(OkAll(wsent), 1, Len(wrecv))
    /\ (wopen /\ wreader = "run" /\ ~LineReady(wire, FALSE)) =>
            wrecv = OkAll(wsent)

\* p is alive and reachable for n: its process runs, the stream n dialed
\* to it is accepted and p's handler serves it
Reachable(n, p) ==
    /\ Running(p)
    /\ link[n][p].cli = "open" /\ link[n][p].srv = "open"
    /\ handler[p][n].pc \in {"read", "handle"}

\* C2: whenever n has sent Elect to a peer with a higher id that is alive
\* and reachable, send_elect_message returns BuillerAlive and elect()
\* returns Fail.
C2_VetoDeterminism ==
    [][\A n \in Ids :
         (/\ n \in roster
          /\ cl[n].pc = "wait" /\ cl'[n].pc # "wait"
          /\ cl[n].peer > n
          /\ Reachable(n, cl[n].peer) /\ Reachable(n, cl[n].peer)')
         => (cl'[n].pc = "sleep" /\ cl'[n].result = "Fail")]_vars

\* the handler of p on the stream from n is done with a message of type t
Handled(p, n, t) ==
    /\ p \in roster /\ n \in Peers(p)
    /\ handler[p][n].pc = "handle"
    /\ handler[p][n].msg.val.message_type = t
    /\ handler'[p][n].pc = "read"

\* C3: when a node has processed an inbound Victory(sender), its leader is
\* sender (whatever it was before, higher or lower) and its
\* last_leader_heartbeat is set.
C3_VictoryLastWriteWins ==
    [][\A p \in Ids, n \in Ids :
         Handled(p, n, "Victory") =>
            /\ leader'[p] = Some(handler[p][n].msg.val.sender_id)
            /\ llh'[p].some]_vars

\* C10: when a node has processed an inbound HeartBeat(sender), its leader
\* is sender, for any sender id, and its last_leader_heartbeat is the
\* current time.
C10_HeartBeatSetsLeader ==
    [][\A p \in Ids, n \in Ids :
         Handled(p, n, "HeartBeat") =>
            /\ leader'[p] = Some(handler[p][n].msg.val.sender_id)
            /\ llh'[p] = Some(0)]_vars

\* the ids below n in the roster, ascending
Below(n) == Ascending({p \in roster : p < n})

HeartBeatsOf(n, log) ==
    \A i \in 1..Len(log) : log[i].type = "HeartBeat" /\ log[i].from = n

\* C4 as stated: a heartbeat round of n writes HeartBeat frames only, to
\* every peer below n when leader = n, and to nobody otherwise.
C4_HeartbeatToEveryLower ==
    [][\A n \in Ids :
         heartbeat(n) =>
            /\ HeartBeatsOf(n, sent')
            /\ {sent'[i].to : i \in 1..Len(sent')} =
                  IF leader[n] = Some(n) THEN {p \in roster : p < n} ELSE {}]_vars

\* C4, amended: a heartbeat round of n writes HeartBeat frames only; none
\* when leader is unset or another node; when leader = n, to the peers
\* below n in ascending order up to the first send that fails: to all of
\* them when no send fails, and a failed send ends the loop.  No peer with
\* an id at or above n is written to.
C4_HeartbeatRecipients ==
    [][\A n \in Ids :
         heartbeat(n) =>
            /\ HeartBeatsOf(n, sent')
            /\ leader[n] # Some(n) => sent' = <<>>
            /\ Len(sent') <= Len(Below(n))
            /\ \A i \in 1..Len(sent') : sent'[i].to = Below(n)[i]
            /\ (leader[n] = Some(n) /\ hb'[n] = "run") =>
                  Len(sent') = Len(Below(n))
            /\ hb'[n] = "err" => Len(sent') < Len(Below(n))]_vars

C4_Witness ==
    /\ leader[3] = Some(3)
    /\ hb[3] = "run"
    /\ sent = <<[from |-> 3, to |-> 1, type |-> "HeartBeat"],
                [from |-> 3, to |-> 2, type |-> "HeartBeat"]>>
    /\ link[3][1].buf = <<"3", ":", "0">>

\* check_leader of p has opened an election in this step
ElectionOpened(p) ==
    cl[p].pc = "sleep" /\ cl'[p].pc \in {"elect", "wait"}

\* C11: when a node has processed an inbound Elect(sender), it has opened
\* an election of its own if and only if sender < self.id.
C11_ElectOpensElection ==
    [][\A p \in Ids, n \in Ids :
         Handled(p, n, "Elect") => (n < p <=> ElectionOpened(p))]_vars

\* the exchange that ended in this step, if one did
ExchangeEnded(n) ==
    /\ n \in roster
    /\ cl'[n].asked # cl[n].asked
    /\ cl'[n].asked[Len(cl'[n].asked)].got # "pending"

LastExchange(n) == cl'[n].asked[Len(cl'[n].asked)]

\* the higher peer elect() turns to after p, 0 when p was the last
NextHigher(n, p) ==
    IF {q \in roster : q > n /\ q > p} = {} THEN 0
    ELSE Min({q \in roster : q > n /\ q > p})

\* C13: an exchange of elect() that fails on transport (failed write,
\* non-timeout read error, zero-byte read) counts as a timeout of that
\* peer: elect() goes on with the next higher peer and returns no error.
C13_TransportErrorAsTimeout ==
    [][\A n \in Ids :
         (ExchangeEnded(n) /\
          LastExchange(n).got \in {"write error", "error", "eof"})
         => /\ cl'[n].pc = "elect"
            /\ cl'[n].peer = NextHigher(n, LastExchange(n).peer)
            /\ cl'[n].result # "Err"]_vars

\* C19: whenever send_elect_message returns after it has set the read
\* deadline, the stream's read deadline is cleared again.
C19_ReadDeadlineCleared ==
    [][\A n \in Ids :
         (n \in roster /\ cl[n].pc = "wait" /\ cl'[n].pc # "wait")
         => ~link'[n][cl[n].peer].rdTimeout]_vars

\* elect() of n has returned in this step
ElectReturned(n) ==
    /\ n \in roster
    /\ cl[n].pc \in {"elect", "wait"}
    /\ cl'[n].pc \in {"sleep", "err"}

\* the peers above n, ascending
Above(n) == Ascending({q \in roster : q > n})

\* the exchange brought an Alive back
GotAlive(e) ==
    /\ e.got = "line"
    /\ str_to_message(e.line).ok
    /\ str_to_message(e.line).val.message_type = "Alive"

\* the exchanges of an election: the peers above n in ascending order,
\* none after an Alive; Fail after an Alive, and Win exactly when every
\* peer above n was asked and timed out
ElectAsSpecified(n, asked, result) ==
    /\ Len(asked) <= Len(Above(n))
    /\ \A i \in 1..Len(asked) : asked[i].peer = Above(n)[i]
    /\ \A i \in 1..Len(asked) :
          GotAlive(asked[i]) => (i = Len(asked) /\ result = "Fail")
    /\ result = "Win" <=>
          /\ Len(asked) = Len(Above(n))
          /\ \A i \in 1..Len(asked) : asked[i].got = "timeout"

\* C12: elect() sends Elect only to the peers with a greater id, in
\* ascending order, none after the first Alive (it returns Fail), and it
\* returns Win exactly when every higher peer timed out, also when there
\* is none.
C12_ElectOrderAndResult ==
    [][\A n \in Ids :
         /\ \A i \in 1..Len(sent') :
               (sent'[i].type = "Elect" /\ sent'[i].from = n) =>
                   sent'[i].to > n
         /\ ElectReturned(n) =>
               ElectAsSpecified(n, cl'[n].asked, cl'[n].result)]_vars

\* the election of n has ended with Win in this step
Won(n) == ElectReturned(n) /\ cl'[n].result = "Win"

\* C14: on Win the node sets leader = self.id and writes Victory to the
\* peers below it, in ascending order, and to none above: to every one of
\* them when no send fails; a send that fails ends the broadcast and the
\* check_leader loop with the error.
C14_VictoryBroadcast ==
    [][\A n \in Ids :
         /\ \A i \in 1..Len(sent') :
               (sent'[i].type = "Victory" /\ sent'[i].from = n) => Won(n)
         /\ Won(n) =>
               /\ leader'[n] = Some(n)
               /\ \A i \in 1..Len(sent') :
                     sent'[i] = [from |-> n, to |-> Below(n)[i],
                                 type |-> "Victory"]
               /\ Len(sent') <= Len(Below(n))
               /\ cl'[n].pc = "sleep" => Len(sent') = Len(Below(n))
               /\ cl'[n].pc = "err" =>
                     (Len(sent') < Len(Below(n)) /\ lock'[n] = "free")]_vars

C14_Witness ==
    /\ cl[3].result = "Win" /\ cl[3].pc = "sleep"
    /\ leader[3] = Some(3)
    /\ sent = <<[from |-> 3, to |-> 1, type |-> "Victory"],
                [from |-> 3, to |-> 2, type |-> "Victory"]>>
    /\ link[3][2].buf = <<"3", ":", "3">>

\* a round of the leader-check loop of n is taken in this step
LeaderCheckTick(n) ==
    n \in roster /\ cl[n].pc = "sleep" /\ check_leader(n)

\* C15: a leader-check tick opens an election if and only if
\* last_leader_heartbeat is set and older than LEADER_CHECK_INTERVAL (as
\* the clock measures it: a clock set back behind the heartbeat time is an
\* error and opens none); leader and last_leader_heartbeat are cleared
\* before anything is sent.  With last_leader_heartbeat unset the tick
\* changes nothing and sends nothing.
C15_LeaderCheckTick ==
    [][\A n \in Ids :
         /\ ElectionOpened(n) =>
               /\ llh[n].some /\ llh[n].val > 3
               /\ leader'[n] = None /\ llh'[n] = None
               /\ sent' = <<>> /\ link' = link
         /\ (LeaderCheckTick(n) /\ llh[n].some /\ llh[n].val > 3) =>
               (ElectionOpened(n) \/ cl'[n].pc = "err")
         /\ (LeaderCheckTick(n) /\ ~llh[n].some) =>
               /\ UNCHANGED <<cl, lock, leader, llh, link, handler, hb>>
               /\ sent' = <<>>]_vars

C15_Witness ==
    \E n \in roster :
        /\ cl[n].pc = "elect" /\ cl[n].asked = <<>>
        /\ lock[n] = "cl"
        /\ leader[n] = None /\ llh[n] = None
        /\ sent = <<>>

\* C16: the election step of a node (clear leader, elect(), set leader,
\* announce Victory) runs under one continuously held write lock: the lock
\* is taken when the step starts and held until elect() and the broadcast
\* have ended, with or without an error; meanwhile no heartbeat round of
\* the node runs and nothing but the election changes its leader and
\* last_leader_heartbeat.
C16_ElectionUnderOneLock ==
    [][\A n \in Ids :
         /\ (n \in roster /\ cl'[n].pc \in {"elect", "wait"}) =>
               lock'[n] = "cl"
         /\ ElectReturned(n) => lock'[n] = "free"
         /\ (n \in roster /\ lock[n] = "cl") =>
               /\ ~heartbeat(n)
               /\ lock'[n] # "cl" => ElectReturned(n)
               /\ (leader'[n] # leader[n] \/ llh'[n] # llh[n]) =>
                     (check_leader(n) /\ cl'[n] # cl[n])]_vars

C16_Witness ==
    \E n \in roster :
        /\ Running(n) /\ hb[n] = "run"
        /\ cl[n].pc = "wait" /\ Len(cl[n].asked) = 2
        /\ lock[n] = "cl"
        /\ leader[n] = None

\* C17: a node has bound its listener before it dials the first peer, and
\* its heartbeat and leader-check loops start only after every peer of the
\* roster has been dialed with success.
C17_StartupOrdering ==
    \A n \in roster :
        /\ (\E p \in Peers(n) : link[n][p].cli = "open") =>
              lsn[n] \in {"accept", "err"}
        /\ (hb[n] # "init" \/ cl[n].pc # "init") =>
              \A p \in Peers(n) : link[n][p].cli = "open"

\* the attempts that timed out before the first other outcome
LeadingTimeouts(script) ==
    Max({k \in 0..Len(script) : \A i \in 1..k : script[i] = "TimedOut"})

\* a dial of at most `most` attempts: a timeout uses one up, any other
\* error ends the dial at once, the first success returns
DialOf(script, most) ==
    LET k == LeadingTimeouts(script)
    IN  IF k >= most
        THEN [ok |-> FALSE, err |-> "TimedOut", attempts |-> most]
        ELSE IF script[k + 1] = "Connected"
        THEN [ok |-> TRUE, attempts |-> k + 1]
        ELSE [ok |-> FALSE, err |-> script[k + 1], attempts |-> k + 1]

\* C18 as stated: a dial makes at most RETRY = 10 attempts and fails once
\* 10 of them have timed out.
C18_AtMostRetryAttempts ==
    dres.some => dres.val = DialOf(dscript, 10)

\* C18, amended: a dial makes at most RETRY + 1 = 11 attempts, the first
\* and 10 retries: each of the first 10 timeouts is retried, the 11th ends
\* the dial with the timeout error; any other connect error ends it at
\* once, and the first attempt that succeeds returns the stream.
C18_RetryAfterTimeout ==
    dres.some => dres.val = DialOf(dscript, 11)

C18_Witness ==
    /\ LeadingTimeouts(dscript) = 11
    /\ dres = Some([ok |-> FALSE, err |-> "TimedOut", attempts |-> 11])

\* the last election of n ended without Win: elect() was called, asked a
\* peer, and returned Fail or an error
LostOrFailed(n) ==
    /\ n \in roster
    /\ cl[n].pc \in {"sleep", "err"}
    /\ cl[n].result \in {"Fail", "Err"}
    /\ cl[n].asked # <<>>

\* C20: an election of the leader-check loop that ends with Fail or with
\* an error leaves leader and last_leader_heartbeat unset; from then on
\* last_leader_heartbeat changes only when a HeartBeat or Victory is
\* processed, and while it is unset the node opens no election.
C20_NoRetryAfterLostElection ==
    [][\A n \in Ids :
         /\ (ElectReturned(n) /\ cl'[n].result # "Win") =>
               (leader'[n] = None /\ llh'[n] = None)
         /\ (LostOrFailed(n) /\ llh'[n] # llh[n]) =>
               \E p \in Ids : Handled(n, p, "HeartBeat")
                                \/ Handled(n, p, "Victory")
         /\ (LostOrFailed(n) /\ ~llh[n].some) => ~ElectionOpened(n)]_vars

C20_Witness ==
    \E n \in roster :
        /\ Running(n)
        /\ cl[n].pc = "sleep" /\ cl[n].result = "Fail"
        /\ lock[n] = "free"
        /\ leader[n] = None /\ llh[n] = None

\* check_leader of n calls elect() in this step: it has just cleared
\* last_leader_heartbeat
ElectCalled(n) ==
    n \in roster /\ cl[n].pc = "sleep" /\ llh[n].some /\ llh'[n] = None

\* C21: for every node id up to 255, elect() sends Elect to no peer with
\* an id at or below the node's own; the node with id 255 sends no Elect
\* at all and its elect() returns Win.
C21_ElectAtMaxId ==
    [][\A n \in EdgeRoster :
         /\ \A i \in 1..Len(sent') :
               (sent'[i].type = "Elect" /\ sent'[i].from = n) =>
                   sent'[i].to > n
         /\ (n = 255 /\ ElectCalled(n)) =>
               (cl'[n].pc = "elect" /\ cl'[n].peer = 0)
         /\ (n = 255 /\ ElectReturned(n)) =>
               (cl'[n].result = "Win" /\ cl'[n].asked = <<>>)]_vars

====
